---- MODULE Spec2Model ----
(***************************************************************************)
(* Model of Dashboard.ipynb: the bundled snapshot and the global df, the   *)
(* normaliser wrangle_data, the REFRESH button callback                    *)
(* api_button_callback with access_api, and the dropdown cols bound to     *)
(* graph through interactive_output, with the force-redraw refresh_graph.  *)
(*                                                                         *)
(* The notebook kernel handles one widget message at a time, so a handler  *)
(* runs to completion before the next event is taken: the steps of the     *)
(* button callback are the only enabled actions while pc # "Idle".         *)
(***************************************************************************)
EXTENDS Integers, Sequences, FiniteSets, TLC

VARIABLES
    data,       \* global data: the raw snapshot loaded from raw_data.json
    df,         \* global df: the dataframe that graph plots
    cols,       \* cols.value: the metric selected in the dropdown
    selection,  \* the metric the user last chose in the dropdown
    icon,       \* apibutton.icon
    disabled,   \* apibutton.disabled
    queued,     \* clicks received while a handler runs, not yet handled
    pc,         \* position of the kernel: "Idle" or a step of the callback
    apidata,    \* local apidata of api_button_callback
    current,    \* local current of refresh_graph
    other,      \* local other of refresh_graph
    renders,    \* calls of graph made while handling the latest event
    fired,      \* change notifications of cols during the latest event
    output,     \* content of the output widget: the latest call of graph
    event,      \* the latest widget event: "none", "click", "select" or
                \* "reselect"
    outcome,    \* how the latest callback ended, or "pending" / "none"
    wrangled    \* value returned by the call of wrangle_data under test

vars == <<data, df, cols, selection, icon, disabled, queued, pc, apidata, current, other,
          renders, fired, output, event, outcome, wrangled>>

----------------------------------------------------------------------------
(* Bounds *)

\* dates are 1..MaxDate; their order stands for the order of ISO date strings
MaxDate == 2
\* longest record list fed to wrangle_data in the normaliser specification
MaxRecords == 2
\* longest record list access_api returns in the dashboard specification
MaxFetchLen == 1
\* most clicks that wait for the running handler
MaxQueued == 1

----------------------------------------------------------------------------
(* Raw snapshots *)

\* cols.options, in order
options == <<"totalCases", "totalDeaths", "totalAdmissions">>

Metrics == {options[i] : i \in 1..Len(options)}

\* keys of a record, in the order of the structure passed to Cov19API
structure == <<"date", "totalCases", "totalDeaths", "totalAdmissions">>

Fields == {structure[i] : i \in 1..Len(structure)}

Dates == 1..MaxDate

\* JSON null
Null == 0 - 1
\* the missing-cell marker of pandas
NaN == 0 - 2
\* the fill value of fillna
FillValue == 0
\* a reported number; the code never computes with it
Count == 5

\* the records over the keys S with a number for every metric they have
RecordsOver(S) ==
    {r \in [S -> Dates \cup {Count}] :
        \A f \in S : IF f = "date" THEN r[f] \in Dates ELSE r[f] = Count}

\* the records with every key, a metric being a number or null (the shape
\* the API gives a record)
ApiShaped ==
    {r \in [Fields -> Dates \cup {Null, Count}] :
        \A f \in Fields : IF f = "date" THEN r[f] \in Dates
                          ELSE r[f] \in {Null, Count}}

\* a record is a mapping from some of the keys to values
Records == ApiShaped \cup UNION {RecordsOver(S) : S \in SUBSET Fields}

\* a record with every key and a number for every metric
Complete(d) == [f \in Fields |-> IF f = "date" THEN d ELSE Count]

\* a mapping without the key 'data'
NoRecordsPayload == [length |-> 0]

SeqsUpTo(S, n) == UNION {[1..k -> S] : k \in 0..n}

Payload(recs) == [data |-> recs]

\* value of a variable that is not in scope
Unset == [unset |-> TRUE]

\* raised exception, as a returned value
Raised == [raised |-> TRUE]

----------------------------------------------------------------------------
(* wrangle_data *)

Reverse(s) == [i \in 1..Len(s) |-> s[Len(s) + 1 - i]]

\* the first record that has the key f
FirstWith(recs, f) ==
    CHOOSE k \in 1..Len(recs) :
        f \in DOMAIN recs[k] /\ \A j \in 1..(k - 1) : f \notin DOMAIN recs[j]

\* the place of the key f within a record
Position(f) == CHOOSE i \in 1..Len(structure) : structure[i] = f

\* columns of json_normalize: the keys that occur in some record, in the
\* order of first appearance (by record, then by place within the record)
Columns(recs) ==
    SortSeq(SelectSeq(structure,
                      LAMBDA f : \E k \in 1..Len(recs) : f \in DOMAIN recs[k]),
            LAMBDA a, b :
                \/ FirstWith(recs, a) < FirstWith(recs, b)
                \/ /\ FirstWith(recs, a) = FirstWith(recs, b)
                   /\ Position(a) < Position(b))

ColumnSet(cs) == {cs[j] : j \in 1..Len(cs)}

\* pd.json_normalize(data, record_path=['data']): one row per record, a
\* column per key that occurs in some record, NaN where a record lacks it
json_normalize(recs) ==
    LET cs == Columns(recs)
    IN  [columns |-> cs,
         rows |-> [k \in 1..Len(recs) |->
                     [c \in ColumnSet(cs) |->
                        IF c \in DOMAIN recs[k] THEN recs[k][c] ELSE NaN]]]

\* the rows kept in the order given
reversedKeeps(t) == t

\* df.loc[::-1].reset_index(drop=True)
reversed(t) == [columns |-> t.columns, rows |-> Reverse(t.rows)]

\* df.fillna(0.0)
fillna(t) ==
    [columns |-> t.columns,
     rows |-> [k \in 1..Len(t.rows) |->
                 [c \in DOMAIN t.rows[k] |->
                    IF t.rows[k][c] \in {NaN, Null} THEN FillValue
                    ELSE t.rows[k][c]]]]

\* wrangle_data returning an empty table for a mapping without 'data'
wrangle_dataLenient(raw) ==
    fillna(reversed(json_normalize(IF "data" \in DOMAIN raw THEN raw.data
                                   ELSE <<>>)))

wrangle_data(raw) ==
    IF "data" \notin DOMAIN raw THEN Raised
    ELSE fillna(reversed(json_normalize(raw.data)))

----------------------------------------------------------------------------
(* graph, cols and interactive_output *)

\* graph(graphcolumns) reads df['date'] and df[graphcolumns]
graph(t, graphcolumns) ==
    [graphcolumns |-> graphcolumns,
     table |-> t,
     error |-> ~({"date", graphcolumns} \subseteq ColumnSet(t.columns))]

\* the second branch stepping backwards
DecoyBackward(cur) ==
    IF cur = options[1] THEN options[2]
    ELSE IF cur = options[2] THEN options[1]
    ELSE options[1]

\* the decoy of refresh_graph
Decoy(cur) ==
    IF cur = options[1] THEN options[2]
    ELSE IF cur = options[2] THEN options[3]
    ELSE options[1]

\* an assignment that notifies no observer
SetValueSilent(v, t) ==
    /\ cols' = v
    /\ UNCHANGED <<fired, renders, output>>

\* an observer that plots the table it saw when it was registered
SetValueStale(v, t) ==
    IF v = cols
    THEN UNCHANGED <<cols, fired, renders, output>>
    ELSE /\ cols' = v
         /\ fired' = fired + 1
         /\ renders' = Append(renders, graph(wrangle_data(data), v))
         /\ output' = graph(wrangle_data(data), v)

\* cols.value = v: a change of value notifies the observer registered by
\* interactive_output, which calls graph with the new value and shows the
\* result in the output widget; an assignment of the same value notifies
\* nobody.
SetValue(v, t) ==
    IF v = cols
    THEN UNCHANGED <<cols, fired, renders, output>>
    ELSE /\ cols' = v
         /\ fired' = fired + 1
         /\ renders' = Append(renders, graph(t, v))
         /\ output' = graph(t, v)

----------------------------------------------------------------------------
(* The dashboard *)

\* raw_data.json: most recent day first, as the API delivers it
BundledSnapshot == Payload([i \in 1..MaxDate |-> Complete(MaxDate + 1 - i)])

\* records access_api may return: at most one key missing, no null
FetchRecords ==
    {r \in Records : /\ Cardinality(Fields \ DOMAIN r) <= 1
                     /\ \A f \in DOMAIN r : r[f] # Null}

FetchPayloads ==
    {NoRecordsPayload} \cup {Payload(s) : s \in SeqsUpTo(FetchRecords, MaxFetchLen)}

Init ==
    /\ data = BundledSnapshot
    /\ df = wrangle_data(BundledSnapshot)
    /\ cols = options[1]
    /\ selection = options[1]
    /\ icon = "rotate-right"
    /\ disabled = FALSE
    /\ queued = 0
    /\ pc = "Idle"
    /\ apidata = Unset
    /\ current = ""
    /\ other = ""
    /\ renders = <<>>
    /\ fired = 0
    /\ output = graph(wrangle_data(BundledSnapshot), options[1])
    /\ event = "none"
    /\ outcome = "none"
    /\ wrangled = Unset

\* the user clicks REFRESH: api_button_callback starts
Click ==
    /\ pc = "Idle"
    /\ queued = 0
    /\ ~disabled
    /\ pc' = "Fetching"
    /\ event' = "click"
    /\ outcome' = "pending"
    /\ renders' = <<>>
    /\ fired' = 0
    /\ UNCHANGED <<data, queued, selection, df, cols, icon, disabled, apidata, current, other,
                   output, wrangled>>

\* a click on REFRESH while the callback runs, starting a second call of
\* the callback inside the first
ClickWhileBusyReenters ==
    /\ pc \notin {"Idle", "Fetching"}
    /\ ~disabled
    /\ pc' = "Fetching"
    /\ UNCHANGED <<data, queued, selection, df, cols, icon, disabled, apidata,
                   current, other, renders, fired, output, event, outcome,
                   wrangled>>

\* the user clicks REFRESH while the callback runs: the button is enabled,
\* so the click is sent; the kernel is busy and the message waits
ClickWhileBusy ==
    /\ pc # "Idle"
    /\ ~disabled
    /\ queued < MaxQueued
    /\ queued' = queued + 1
    /\ UNCHANGED <<data, selection, df, cols, icon, disabled, pc, apidata,
                   current, other, renders, fired, output, event, outcome,
                   wrangled>>

\* the handler has ended and the kernel takes the next waiting click:
\* api_button_callback starts
StartQueued ==
    /\ pc = "Idle"
    /\ queued > 0
    /\ queued' = queued - 1
    /\ pc' = "Fetching"
    /\ event' = "click"
    /\ outcome' = "pending"
    /\ renders' = <<>>
    /\ fired' = 0
    /\ UNCHANGED <<data, selection, df, cols, icon, disabled, apidata, current,
                   other, output, wrangled>>

\* a failed fetch after which the callback carries on to the redraw
FetchRaisesCarriesOn ==
    /\ pc = "Fetching"
    /\ pc' = "Redraw"
    /\ UNCHANGED <<data, queued, selection, df, cols, icon, disabled, apidata,
                   current, other, renders, fired, output, event, outcome,
                   wrangled>>

\* a failed fetch that blanks the table
FetchRaisesBlanks ==
    /\ pc = "Fetching"
    /\ pc' = "Idle"
    /\ outcome' = "access_api raised"
    /\ df' = fillna(reversed(json_normalize(<<>>)))
    /\ UNCHANGED <<data, queued, selection, cols, icon, disabled, apidata, current,
                   other, renders, fired, output, event, wrangled>>

\* access_api raises (no connection, HTTP error): nothing catches it and
\* the callback ends there
FetchRaises ==
    /\ pc = "Fetching"
    /\ pc' = "Idle"
    /\ outcome' = "access_api raised"
    /\ UNCHANGED <<data, queued, selection, df, cols, icon, disabled, apidata, current, other,
                   renders, fired, output, event, wrangled>>

\* apidata = access_api()
FetchReturns(p) ==
    /\ pc = "Fetching"
    /\ apidata' = p
    /\ pc' = "Normalizing"
    /\ UNCHANGED <<data, queued, selection, df, cols, icon, disabled, current, other, renders,
                   fired, output, event, outcome, wrangled>>

\* df = wrangle_data(apidata), wrangle_data raising: the callback ends
NormalizeRaises ==
    /\ pc = "Normalizing"
    /\ wrangle_data(apidata) = Raised
    /\ pc' = "Idle"
    /\ outcome' = "wrangle_data raised"
    /\ apidata' = Unset
    /\ UNCHANGED <<data, queued, selection, df, cols, icon, disabled, current, other, renders,
                   fired, output, event, wrangled>>

\* the icon set to "check" as soon as df is assigned
NormalizeSwapsReportsFirst ==
    /\ pc = "Normalizing"
    /\ wrangle_data(apidata) # Raised
    /\ df' = wrangle_data(apidata)
    /\ icon' = "check"
    /\ pc' = "Redraw"
    /\ UNCHANGED <<data, queued, selection, cols, disabled, apidata, current,
                   other, renders, fired, output, event, outcome, wrangled>>

\* the fetched snapshot stored in the global data as well
NormalizeSwapsStoresRaw ==
    /\ pc = "Normalizing"
    /\ wrangle_data(apidata) # Raised
    /\ df' = wrangle_data(apidata)
    /\ data' = apidata
    /\ pc' = "Redraw"
    /\ UNCHANGED <<queued, selection, cols, icon, disabled, apidata, current,
                   other, renders, fired, output, event, outcome, wrangled>>

\* df = wrangle_data(apidata)
NormalizeSwaps ==
    /\ pc = "Normalizing"
    /\ wrangle_data(apidata) # Raised
    /\ df' = wrangle_data(apidata)
    /\ pc' = "Redraw"
    /\ UNCHANGED <<data, queued, selection, cols, icon, disabled, apidata, current, other,
                   renders, fired, output, event, outcome, wrangled>>

\* refresh_graph up to cols.value = other
RedrawDecoy ==
    /\ pc = "Redraw"
    /\ current' = cols
    /\ other' = Decoy(cols)
    /\ SetValue(Decoy(cols), df)
    /\ pc' = "Restore"
    /\ UNCHANGED <<data, queued, selection, df, icon, disabled, apidata, event, outcome, wrangled>>

\* refresh_graph returning without the second assignment
RedrawRestoreSkips ==
    /\ pc = "Restore"
    /\ pc' = "Report"
    /\ current' = ""
    /\ other' = ""
    /\ UNCHANGED <<data, queued, selection, df, cols, icon, disabled, apidata, renders,
                   fired, output, event, outcome, wrangled>>

\* cols.value = current, and refresh_graph returns
RedrawRestore ==
    /\ pc = "Restore"
    /\ SetValue(current, df)
    /\ pc' = "Report"
    /\ current' = ""
    /\ other' = ""
    /\ UNCHANGED <<data, queued, selection, df, icon, disabled, apidata, event, outcome, wrangled>>

\* apibutton.icon = "check", and the callback returns
ReportSuccess ==
    /\ pc = "Report"
    /\ icon' = "check"
    /\ pc' = "Idle"
    /\ outcome' = "returned"
    /\ apidata' = Unset
    /\ UNCHANGED <<data, queued, selection, df, cols, disabled, current, other, renders, fired,
                   output, event, wrangled>>

\* a render that reorders the rows of df in place
SelectMetricRewrites(m) ==
    /\ pc = "Idle"
    /\ m # cols
    /\ event' = "select"
    /\ cols' = m
    /\ selection' = m
    /\ fired' = 1
    /\ df' = reversed(df)
    /\ renders' = <<graph(df', m)>>
    /\ output' = graph(df', m)
    /\ UNCHANGED <<data, queued, icon, disabled, pc, apidata, current, other,
                   outcome, wrangled>>

\* the user picks another metric in the dropdown
SelectMetric(m) ==
    /\ pc = "Idle"
    /\ m # cols
    /\ event' = "select"
    /\ cols' = m
    /\ selection' = m
    /\ fired' = 1
    /\ renders' = <<graph(df, m)>>
    /\ output' = graph(df, m)
    /\ UNCHANGED <<data, queued, df, icon, disabled, pc, apidata, current, other,
                   outcome, wrangled>>

\* an assignment of the same value that notifies the observer all the same
ReselectRenders ==
    /\ pc = "Idle"
    /\ event' = "reselect"
    /\ fired' = 1
    /\ renders' = <<graph(df, cols)>>
    /\ output' = graph(df, cols)
    /\ UNCHANGED <<data, queued, selection, df, cols, icon, disabled, pc,
                   apidata, current, other, outcome, wrangled>>

\* the selection is set to the value it already has: cols notifies no
\* change, so the observer of interactive_output does not run
Reselect ==
    /\ pc = "Idle"
    /\ event' = "reselect"
    /\ fired' = 0
    /\ renders' = <<>>
    /\ UNCHANGED <<data, queued, selection, df, cols, icon, disabled, pc,
                   apidata, current, other, output, outcome, wrangled>>

Next ==
    \/ Click
    \/ ClickWhileBusy
    \/ StartQueued
    \/ FetchRaises
    \/ \E p \in FetchPayloads : FetchReturns(p)
    \/ NormalizeRaises
    \/ NormalizeSwaps
    \/ RedrawDecoy
    \/ RedrawRestore
    \/ ReportSuccess
    \/ \E m \in Metrics : SelectMetric(m)
    \/ Reselect

Spec == Init /\ [][Next]_vars

\* what access_api returns in the specification of the state machine: a
\* mapping without 'data', or complete records
LivePayloads ==
    {NoRecordsPayload} \cup
    {Payload(s) : s \in SeqsUpTo({Complete(d) : d \in Dates}, MaxFetchLen)}

\* a step of the running callback, or the start of one for a waiting click
KernelStep ==
    \/ FetchRaises
    \/ \E p \in LivePayloads : FetchReturns(p)
    \/ NormalizeRaises
    \/ NormalizeSwaps
    \/ RedrawDecoy
    \/ RedrawRestore
    \/ ReportSuccess
    \/ StartQueued

LiveNext ==
    \/ KernelStep
    \/ Click
    \/ ClickWhileBusy
    \/ \E m \in Metrics : SelectMetric(m)
    \/ Reselect

\* The kernel runs a handler it has started to its end and then takes the
\* next waiting message; the fetch is assumed to end.
Fairness == WF_vars(KernelStep)

SpecLive == Init /\ [][LiveNext]_vars /\ Fairness

----------------------------------------------------------------------------
(* The normaliser on its own: wrangle_data applied to any raw snapshot *)

NormPayloads ==
    {NoRecordsPayload} \cup {Payload(s) : s \in SeqsUpTo(Records, MaxRecords)}

NormInit ==
    /\ data = BundledSnapshot
    /\ df = wrangle_data(BundledSnapshot)
    /\ cols = options[1]
    /\ selection = options[1]
    /\ icon = "rotate-right"
    /\ disabled = FALSE
    /\ queued = 0
    /\ pc = "Call"
    /\ apidata \in NormPayloads
    /\ current = ""
    /\ other = ""
    /\ renders = <<>>
    /\ fired = 0
    /\ output = graph(wrangle_data(BundledSnapshot), options[1])
    /\ event = "none"
    /\ outcome = "none"
    /\ wrangled = Unset

\* wrangled = wrangle_data(apidata)
WrangleCall ==
    /\ pc = "Call"
    /\ wrangled' = wrangle_data(apidata)
    /\ pc' = "Called"
    /\ UNCHANGED <<data, queued, selection, df, cols, icon, disabled, apidata, current, other,
                   renders, fired, output, event, outcome>>

NormNext == WrangleCall

SpecNorm == NormInit /\ [][NormNext]_vars

----------------------------------------------------------------------------
(* Properties of the refresh (specification Spec) *)

\* the callback ended with an exception
Failed == pc = "Idle" /\ outcome \in {"access_api raised", "wrangle_data raised"}

\* the callback returned, and no later event has been handled
Refreshed == pc = "Idle" /\ event = "click" /\ outcome = "returned"

\* C1: a refresh whose fetch fails leaves df as it was before the click: the
\* two steps such a refresh consists of, the start of the callback and
\* access_api raising, both leave df (and the raw snapshot) unchanged,
\* whatever refreshes came before.
C1_FailedFetchKeepsTable ==
    [][(pc = "Idle" /\ pc' = "Fetching") \/ (pc = "Fetching" /\ pc' = "Idle")
         => df' = df /\ data' = data]_vars

\* a fetch failure after a successful refresh that replaced the table
C1_Witness ==
    /\ pc = "Idle"
    /\ event = "click"
    /\ outcome = "access_api raised"
    /\ icon = "check"
    /\ df # wrangle_data(BundledSnapshot)

\* C2: when access_api returns a mapping without the key 'data',
\* wrangle_data raises and the callback ends there as it does when the fetch
\* raises: df is unchanged, no assignment to cols and no call of graph is
\* made, and the icon is not set (no success is reported).
C2_MissingRecordsKeyIsFailure ==
    [][pc = "Normalizing" /\ pc' # pc /\ "data" \notin DOMAIN apidata
         => /\ pc' = "Idle"
            /\ outcome' = "wrangle_data raised"
            /\ df' = df
            /\ cols' = cols
            /\ renders' = renders /\ renders = <<>>
            /\ fired' = fired /\ fired = 0
            /\ output' = output
            /\ icon' = icon]_vars

\* a refresh ended by wrangle_data raising on a mapping without 'data'
C2_Witness ==
    /\ pc = "Idle"
    /\ event = "click"
    /\ outcome = "wrangle_data raised"
    /\ renders = <<>>

\* the icons the callback's comment names for a failed API call
FailureIcons == {"unlink", "times"}

\* C3: after a failed refresh the button shows a failure icon, never "check"
C3_FailureIsShown == Failed => icon \in FailureIcons /\ icon # "check"

C9_SelectionRestored ==
    /\ pc # "Restore" => cols = selection
    /\ pc = "Restore" => current = selection

\* refresh_graph has returned, after the user had changed the selection
C9_Witness ==
    /\ pc = "Report"
    /\ fired = 2
    /\ cols = selection
    /\ selection = options[2]

\* the fixed cycle totalCases -> totalDeaths -> totalAdmissions -> totalCases
Cycle == <<"totalCases", "totalDeaths", "totalAdmissions">>

Successor(m) ==
    LET i == CHOOSE k \in 1..Len(Cycle) : Cycle[k] = m
    IN  Cycle[(i % Len(Cycle)) + 1]

\* C10: the decoy is an option other than the current one, its successor
\* in the cycle, and cols notifies a change once for current -> decoy and
\* once for decoy -> current: twice per force-redraw.
C10_DecoyIsSuccessorTwoChanges ==
    /\ pc = "Redraw" => fired = 0
    /\ pc = "Restore" =>
          /\ other \in Metrics
          /\ other # current
          /\ other = Successor(current)
          /\ cols = other
          /\ fired = 1
    /\ pc = "Report" \/ Refreshed => fired = 2

\* the decoy of the last option wraps around to the first
C10_Witness ==
    /\ pc = "Restore"
    /\ current = options[3]
    /\ other = options[1]
    /\ fired = 1

----------------------------------------------------------------------------
(* Properties of wrangle_data (specification SpecNorm) *)

\* the call returned a table
Returned == pc = "Called" /\ wrangled # Raised

HasRecords(raw) == "data" \in DOMAIN raw

EveryRecordDated(raw) ==
    \A k \in 1..Len(raw.data) : "date" \in DOMAIN raw.data[k]

InDates == [k \in 1..Len(apidata.data) |-> apidata.data[k]["date"]]

OutDates == [k \in 1..Len(wrangled.rows) |-> wrangled.rows[k]["date"]]

StrictlyAscending(s) == \A i, j \in 1..Len(s) : i < j => s[i] < s[j]

StrictlyDescending(s) == \A i, j \in 1..Len(s) : i < j => s[i] > s[j]

Distinct(s) == \A i, j \in 1..Len(s) : i # j => s[i] # s[j]

ValueOrFill(r, m) ==
    IF m \in DOMAIN r /\ r[m] # Null THEN r[m] ELSE FillValue

\* C7: one row per record, and every row has each of the three metrics,
\* 0.0 where the record lacks it
C7_EveryMetricInEveryRow ==
    pc = "Called" /\ HasRecords(apidata) =>
        /\ wrangled # Raised
        /\ Len(wrangled.rows) = Len(apidata.data)
        /\ \A k \in 1..Len(apidata.data) : \A m \in Metrics :
              LET row == wrangled.rows[Len(apidata.data) + 1 - k]
              IN  m \in DOMAIN row /\ row[m] = ValueOrFill(apidata.data[k], m)

\* lacks 'data', or has a record without a date
Malformed(raw) == ~HasRecords(raw) \/ ~EveryRecordDated(raw)

\* C8: wrangle_data raises on a payload without 'data' or with a record
\* without a date, so the refresh that delivered it leaves df unchanged
C8_MalformedIsRejected ==
    [][pc = "Normalizing" /\ pc' # pc /\ Malformed(apidata)
         => wrangle_data(apidata) = Raised /\ pc' = "Idle" /\ df' = df]_vars

----------------------------------------------------------------------------
(* Properties of the button, the raw snapshot and the table reference
   (specification Spec) *)

Applying == {"Redraw", "Restore", "Report"}

\* C12 as claimed: whenever the callback is not running, df is the
\* normalised raw snapshot held in data
C12_TableIsNormalizedRawStore == pc = "Idle" => df = wrangle_data(data)

\* C12: data holds the bundled snapshot throughout; a successful refresh
\* keeps the fetched snapshot only in the local apidata, from which df is
\* made and which is gone once the callback returns. df is the normalised
\* data only until the first successful refresh.
C12_RawStoreStaysBundled ==
    /\ data = BundledSnapshot
    /\ pc \in Applying => df = wrangle_data(apidata)
    /\ pc \in {"Idle", "Fetching"} => apidata = Unset
    /\ icon # "check" /\ pc \notin Applying => df = wrangle_data(data)

\* after a successful refresh df is no longer the normalised data
C12_Witness ==
    /\ pc = "Idle"
    /\ outcome = "returned"
    /\ apidata = Unset
    /\ data = BundledSnapshot
    /\ df # wrangle_data(data)

\* C13: df is written only by the assignment of line 281, after access_api
\* and wrangle_data have both returned: the fetch, the steps of
\* refresh_graph, a change of the selection and the calls of graph it
\* causes all leave df unchanged.
C13_OnlyTheSwapWritesTable ==
    [][/\ df' # df =>
            /\ pc = "Normalizing"
            /\ pc' = "Redraw"
            /\ wrangle_data(apidata) # Raised
            /\ df' = wrangle_data(apidata)
       /\ \/ pc = "Fetching"
          \/ pc \in Applying
          \/ cols' # cols
          \/ renders' # renders
          \/ output' # output
          => df' = df]_vars

\* the table a refresh fetched is still in place after the force-redraw
\* plotted it twice for a selection the user had changed twice
C13_Witness ==
    /\ pc = "Report"
    /\ selection = options[3]
    /\ Len(renders) = 2
    /\ df = wrangle_data(apidata)
    /\ df # wrangle_data(data)

\* C14: a successful refresh replaces df by the normalised fetched snapshot
\* as a whole, then redraws, then reports: every call of graph the refresh
\* makes reads the new table, and the callback sets the icon to "check" and
\* returns only from the step after the two redraws, with df in place.
C14_SwapRedrawReport ==
    /\ [](event = "click" =>
            \A i \in 1..Len(renders) :
                renders[i].table = df /\ pc \in Applying \cup {"Idle"})
    /\ [](pc = "Report" =>
            /\ df = wrangle_data(apidata)
            /\ renders = <<graph(wrangle_data(apidata), Decoy(cols)),
                           graph(wrangle_data(apidata), cols)>>)
    /\ [][outcome' = "returned" /\ outcome # "returned" =>
            /\ pc = "Report"
            /\ icon' = "check"
            /\ df' = df
            /\ renders' = renders]_vars
    /\ [][icon' = "check" /\ icon # "check" =>
            pc = "Report" /\ outcome' = "returned"]_vars

\* the first successful refresh has put a one-row table in place of the
\* bundled one, and both renders read it
C14_Witness ==
    /\ Refreshed
    /\ icon = "check"
    /\ Len(df.rows) = 1
    /\ Len(wrangle_data(data).rows) > 1
    /\ renders[1].table = df
    /\ renders[2].table = df

\* C15: graph is called when cols.value changes and only then. A change
\* of the selection by the user makes exactly one call, with the new metric
\* and the current df; setting the selection to the value it has makes
\* none; no step that leaves cols.value as it is, the replacement of df
\* included, calls graph or touches the output widget.
C15_RenderOnChangeOnly ==
    /\ [](pc = "Idle" /\ event = "select" =>
            /\ renders = <<graph(df, cols)>>
            /\ fired = 1
            /\ output = graph(df, cols)
            /\ cols = selection)
    /\ [](event = "reselect" => renders = <<>> /\ fired = 0)
    /\ [][cols' # cols =>
            /\ output' = graph(df', cols')
            /\ renders' = Append(IF pc = "Idle" THEN <<>> ELSE renders,
                                 graph(df', cols'))
            /\ fired' = (IF pc = "Idle" THEN 0 ELSE fired) + 1]_vars
    /\ [][cols' = cols =>
            /\ output' = output
            /\ renders' = renders \/ renders' = <<>>
            /\ fired' = fired \/ fired' = 0]_vars

\* the user had picked the second metric, which was plotted; setting the
\* same value again has plotted nothing
C15_Witness ==
    /\ pc = "Idle"
    /\ event = "reselect"
    /\ selection = options[2]
    /\ renders = <<>>
    /\ output = graph(df, options[2])

----------------------------------------------------------------------------
(* The state machine of the refresh (specification SpecLive) *)

Phase(p) ==
    IF p = "Idle" THEN "Idle"
    ELSE IF p \in Applying THEN "Applying"
    ELSE "Fetching"

\* Idle -> Fetching -> (Applying -> Idle | Idle)
PhaseSteps ==
    {<<"Idle", "Fetching">>, <<"Fetching", "Applying">>,
     <<"Fetching", "Idle">>, <<"Applying", "Idle">>}

\* C16: the callback moves Idle -> Fetching -> (Applying -> Idle | Idle);
\* it enters Applying only from the assignment of df, after access_api and
\* wrangle_data have returned; it leaves Fetching for Idle only by an
\* exception, with df unchanged; a refresh that has started returns to
\* Idle, where a click can start the next one.
C16_RefreshStateMachine ==
    /\ [][Phase(pc') # Phase(pc) =>
            /\ <<Phase(pc), Phase(pc')>> \in PhaseSteps
            /\ Phase(pc') = "Applying" =>
                  /\ pc = "Normalizing"
                  /\ wrangle_data(apidata) # Raised
                  /\ df' = wrangle_data(apidata)
            /\ Phase(pc) = "Fetching" /\ pc' = "Idle" =>
                  /\ df' = df
                  /\ outcome' \in {"access_api raised", "wrangle_data raised"}
            /\ Phase(pc) = "Applying" /\ pc' = "Idle" =>
                  outcome' = "returned"]_vars
    /\ [](pc = "Idle" => ENABLED (Click \/ StartQueued))
    /\ (pc # "Idle") ~> (pc = "Idle")

\* the first successful refresh has replaced df, redrawn twice and is
\* about to report
C16_Witness ==
    /\ pc = "Report"
    /\ icon # "check"
    /\ queued = 0
    /\ df # wrangle_data(data)
    /\ Len(renders) = 2
    /\ outcome = "pending"

====
